---- MODULE Spec2Model ----
(***************************************************************************)
(* Model of icu_benchmarks/models/wrappers.py (DLWrapper, MLWrapper) and   *)
(* icu_benchmarks/recipes/step.py (Step and its concrete subclasses).      *)
(*                                                                         *)
(* Losses are fixed-point numbers in hundredths (0.90 is 90).  Model       *)
(* parameters, metric dictionaries and fitted transformers are represented *)
(* by records that say where they came from (which run, which epoch, which *)
(* table), so that "the checkpoint of epoch e" is a value of the model.    *)
(***************************************************************************)
EXTENDS Integers, Sequences, FiniteSets, TLC

\* ------------------------------------------------------------------ bounds
MaxEpochs == 4
MaxPatience == 2
MaxCalls == 2
MaxStepCalls == 3
MaxWidth == 3
MaxRows == 3
MaxBatches == 2

\* float("inf"), wrappers.py line 205: larger than every loss of the model.
Inf == 1000

\* Validation losses an epoch may produce, in hundredths.
Losses == {90, 91, 92, 100}
\* min_delta values a caller may pass, in hundredths (negative is accepted).
MinDeltas == {-1, 0, 1}
Seeds == {1, 2}

\* Python's None, an unbound local, a missing file, a seed with no record.
\* (A dict with no "loss" key is a record without a loss field.)
None == [none |-> TRUE]
Unbound == [unbound |-> TRUE]
NoFile == [exists |-> FALSE]
NoRecord == [absent |-> TRUE]

\* The per-class balance the training dataset reports (get_balance()).
Balance == <<1, 3>>
\* The weight arguments a caller passes: the sentinel, literal lists, None.
WeightArgs == {[str |-> "balanced"], [list |-> <<2, 1>>], None}

VARIABLES
    \* ---- DLWrapper object and its log directory
    pc,                  \* where the wrapper's current call stands
    encoder,             \* live parameters: which run and pass produced them
    optimizer,           \* optimizer state, same tagging
    model_torch,         \* logdir/model.torch
    best_metrics_json,   \* logdir/best_metrics.json
    test_metrics_json,   \* logdir/test_metrics.json
    val_shared,          \* logdir/../val_metrics.json : seed -> record
    test_shared,         \* logdir/../test_metrics.json : seed -> record
    train_writer,        \* tensorboard/train scalars "Loss"
    val_writer,          \* tensorboard/val scalars "Loss"
    \* ---- locals of DLWrapper.train
    run,                 \* number of train calls started on this wrapper
    epochs, patience, min_delta, save_weights, seed,
    loss_weight,         \* the weight handed to step_fn by the current call
    best_loss, epoch_no_improvement, best_metrics, val_metric_results,
    epoch,               \* number of epochs run so far (the next epoch index)
    history,             \* per epoch run: its validation loss and the decision
    calls,               \* number of wrapper calls made
    out_features,        \* encoder.logit.out_features
    metrics,             \* names of the metric set set_metrics installed
    weight_arg,          \* the weight argument of the current call
    call,                \* the latest call: operation, seed, how it stands
    \* ---- MLWrapper object and its log directory
    ml_model,            \* the estimator the wrapper holds
    ml_metrics,          \* names of the metric set MLWrapper.set_metrics chose
    ml_model_file,       \* logdir/model.txt or logdir/model.joblib
    ml_val_json,         \* logdir/val_metrics.json
    ml_test_json,        \* logdir/test_metrics.json
    ml_transform,        \* the output transform set_metrics installed
    ml_predict,          \* the prediction method the latest call used
    \* ---- one DLWrapper.step_fn call
    batch,               \* the element the loader yields
    has_aux,             \* whether the encoder returns (out, aux_loss)
    step_out,            \* what step_fn returned, or that it raised
    encoder_calls,       \* how often self.encoder(data) was evaluated
    metric_acc,          \* what the metric objects have accumulated
    \* ---- one Step instance of a recipe
    step,                \* the Step object: its attributes
    sk_obj,              \* the external transform object a StepSklearn wraps
    tr,                  \* the latest call on the step and what it did
    completed_cols,      \* columns resolved by the latest fit that completed
    step_calls,          \* number of calls made on the step
    step_b,              \* a second Step, built with the same external object
    \* ---- one StepHistorical and the grouped table it is applied to
    hist,                \* the step's attributes, the table, what transform did
    \* ---- the pass over a loader that is under way (_do_training, evaluate)
    pass                 \* loader sizes, batches consumed, their losses, results

dlvars == <<pc, encoder, optimizer, model_torch, best_metrics_json,
            test_metrics_json, val_shared, test_shared, train_writer,
            val_writer, run, epochs, patience, min_delta, save_weights, seed,
            loss_weight, best_loss, epoch_no_improvement, best_metrics,
            val_metric_results, epoch, history, calls, out_features,
            metrics, weight_arg, call>>

mlvars == <<ml_model, ml_metrics, ml_model_file, ml_val_json, ml_test_json,
            ml_transform, ml_predict>>

fnvars == <<batch, has_aux, step_out, encoder_calls, metric_acc>>

stepvars == <<step, sk_obj, tr, completed_cols, step_calls, step_b>>

vars == <<dlvars, mlvars, fnvars, stepvars, hist, pass>>

\* What the calls of the two wrappers' train and test leave alone.
others == <<fnvars, stepvars, hist, pass>>
\* What a DLWrapper call leaves alone.
notDL == <<mlvars, others>>

\* ------------------------------------------------------- helper functions

\* Parameters produced by `passes` training passes of train call `r`.
Params(r, passes) == [run |-> r, passes |-> passes]

\* Parameters as constructed (DLWrapper.__init__).
Fresh == Params(0, 0)
\* A model.torch left in the log directory by an earlier process.
Earlier == [model |-> [earlier |-> TRUE], optimizer |-> [earlier |-> TRUE],
            epoch |-> 0]

\* torch.FloatTensor(list).to(device): the same numbers as a float32 tensor.
FloatTensor(w) == [tensor |-> w]

\* isinstance(weight, list)
IsList(w) == "list" \in DOMAIN w

\* weight == "balanced"
IsBalanced(w) == "str" \in DOMAIN w /\ w.str = "balanced"

\* best_loss - min_delta on floats: inf minus a finite number is inf.
MutFloatAdd(a, b) == IF a = Inf THEN Inf ELSE a + b
FloatSub(a, b) == IF a = Inf THEN Inf ELSE a - b

\* save_model(encoder, optimizer, epoch, path)
save_model(enc, opt, ep) == [model |-> enc, optimizer |-> opt, epoch |-> ep]

\* append_results(path, results, seed): the shared file is keyed by seed.
append_results(file, results, s) == [file EXCEPT ![s] = results]

EmptyShared == [s \in Seeds |-> NoRecord]

\* ---------------------------------------------------- DLWrapper.step_fn

\* torch.ones_like(labels).bool(), line 120
MutZerosLike(labels) == [i \in 1..Len(labels) |-> FALSE]
OnesLike(labels) == [i \in 1..Len(labels) |-> TRUE]

\* self.encoder(data), line 131: one output row per position, a function of
\* the parameters and of the features at that position; some encoders
\* return (out, aux_loss).
EncoderOut(enc, data) == [i \in 1..Len(data) |-> [params |-> enc, x |-> data[i]]]
EncoderAux(enc, aux) == IF aux THEN [aux_of |-> enc] ELSE [aux_of |-> "none"]

\* torch.masked_select(x, mask), lines 136-137: the entries at the positions
\* the mask keeps, in order.
RECURSIVE MaskedSelect(_, _)
MaskedSelect(x, mask) ==
    IF x = <<>> THEN <<>>
    ELSE LET rest == MaskedSelect(Tail(x), Tail(mask))
         IN IF Head(mask) THEN <<Head(x)>> \o rest ELSE rest

\* What step_fn yields when the element has no supported arity, line 130.
StepRaised == [status |-> "raised"]

\* Lines 131-143, with data, labels and mask unpacked.
StepForward(enc, aux, width, data, labels, mask, weight) ==
    LET out == EncoderOut(enc, data)
        out_flat == MaskedSelect(out, mask)
        label_flat == MaskedSelect(labels, mask)
        loss == IF width > 1
                THEN [preds |-> out_flat, target |-> label_flat,
                      cast |-> "long", weight |-> weight,
                      aux |-> EncoderAux(enc, aux)]
                ELSE [preds |-> out_flat, target |-> label_flat,
                      cast |-> "float", weight |-> None,
                      aux |-> EncoderAux(enc, aux)]
    IN [status |-> "ok", loss |-> loss, out_flat |-> out_flat,
        label_flat |-> label_flat]

\* step_fn(element, loss_weight), lines 111-143.
step_fn(enc, aux, width, element, weight) ==
    IF Len(element) = 2
    THEN StepForward(enc, aux, width, element[1], element[2],
                     OnesLike(element[2]), weight)
    ELSE IF Len(element) = 3
    THEN StepForward(enc, aux, width, element[1], element[2], element[3],
                     weight)
    ELSE StepRaised

\* One call of step_fn on the element the loader yielded.
StepFnCall ==
    /\ step_out = [status |-> "not called"]
    /\ step_out' = step_fn(encoder, has_aux, out_features, batch, loss_weight)
    /\ encoder_calls' = IF Len(batch) \in {2, 3} THEN encoder_calls + 1
                        ELSE encoder_calls
    /\ UNCHANGED <<batch, has_aux, metric_acc>>

InitFn ==
    /\ batch = <<>>
    /\ has_aux = FALSE
    /\ step_out = [status |-> "not called"]
    /\ encoder_calls = 0
    /\ metric_acc = <<>>

\* ------------------------------------------------------ DLWrapper.train

\* DLWrapper.set_metrics, lines 90-109: the metric set by output width.
MutSetMetricsBinaryOrElse(width) ==
    IF width = 2
    THEN {"PR", "AUC", "PR_Curve", "ROC_Curve", "Calibration_Curve"}
    ELSE {"Accuracy", "BalancedAccuracy"}
SetMetrics(width) ==
    IF width = 2
    THEN {"PR", "AUC", "PR_Curve", "ROC_Curve", "Calibration_Curve"}
    ELSE IF width = 1 THEN {"MAE"}
    ELSE {"Accuracy", "BalancedAccuracy"}

\* Weight resolution of train, lines 200-203.
MutTrainWeightUniform(w) ==
    IF IsList(w) THEN FloatTensor(w.list)
    ELSE IF IsBalanced(w) THEN FloatTensor(<<1, 1>>)
    ELSE w
TrainWeight(w) ==
    IF IsList(w) THEN FloatTensor(w.list)
    ELSE IF IsBalanced(w) THEN FloatTensor(Balance)
    ELSE w

\* The early-stopping test of line 218.
MutImprovedStrict(val_loss, best, delta) == val_loss < FloatSub(best, delta)
Improved(val_loss, best, delta) == val_loss <= FloatSub(best, delta)

\* The stop test of line 228.
MutShouldStopLate(count, pat) == count > pat
ShouldStop(count, pat) == count >= pat

\* The states in which the wrapper is not inside a call.
Callable == {"idle", "returned", "raised"}

\* train(...) up to the loop, lines 178-208.
DLTrainBegin(e, p, d, sw, s, w) ==
    /\ pc \in Callable
    /\ calls < MaxCalls
    /\ calls' = calls + 1
    /\ run' = run + 1
    /\ epochs' = e /\ patience' = p /\ min_delta' = d
    /\ save_weights' = sw /\ seed' = s
    /\ call' = [op |-> "DLWrapper.train", seed |-> s, state |-> "running"]
    /\ metrics' = SetMetrics(out_features)
    /\ weight_arg' = w
    /\ loss_weight' = TrainWeight(w)
    /\ best_loss' = Inf
    /\ epoch_no_improvement' = 0
    /\ best_metrics' = Unbound
    /\ val_metric_results' = Unbound
    /\ epoch' = 0
    /\ history' = <<>>
    /\ pc' = "loop"
    /\ UNCHANGED <<encoder, optimizer, model_torch, best_metrics_json,
                   test_metrics_json, val_shared, test_shared, train_writer,
                   val_writer, out_features>>

\* The loop iteration with save_weights called on every epoch rather than
\* only on an improving one.
MutEpochSavesLast(val_loss) ==
    /\ pc = "loop"
    /\ epoch < epochs
    /\ LET trained == Params(run, epoch + 1)
           results == [epoch |-> epoch]
           better == Improved(val_loss, best_loss, min_delta)
           count == IF better THEN 0 ELSE epoch_no_improvement + 1
           stop == ShouldStop(count, patience)
       IN /\ encoder' = trained
          /\ optimizer' = trained
          /\ val_metric_results' = results
          /\ best_metrics' = IF better THEN results ELSE best_metrics
          /\ epoch_no_improvement' = count
          /\ model_torch' = IF save_weights
                            THEN save_model(trained, trained, epoch)
                            ELSE model_torch
          /\ best_loss' = IF better THEN val_loss ELSE best_loss
          /\ pc' = IF stop THEN "stopped" ELSE "loop"
          /\ train_writer' = IF stop THEN train_writer
                             ELSE Append(train_writer, [step |-> epoch])
          /\ val_writer' = IF stop THEN val_writer
                           ELSE Append(val_writer,
                                       [step |-> epoch, loss |-> val_loss])
          /\ history' = Append(history, [loss |-> val_loss, improved |-> better])
    /\ epoch' = epoch + 1
    /\ UNCHANGED <<best_metrics_json, test_metrics_json, val_shared,
                   test_shared, run, epochs, patience, min_delta,
                   save_weights, seed, loss_weight, calls, out_features,
                   metrics, weight_arg, call>>

\* One iteration of the loop of lines 210-253: the training pass, the
\* validation pass (which yields val_loss), early stopping, logging.
DLEpoch(val_loss) ==
    /\ pc = "loop"
    /\ epoch < epochs
    /\ LET trained == Params(run, epoch + 1)
           results == [epoch |-> epoch]
           better == Improved(val_loss, best_loss, min_delta)
           count == IF better THEN 0 ELSE epoch_no_improvement + 1
           stop == ShouldStop(count, patience)
       IN /\ encoder' = trained
          /\ optimizer' = trained
          /\ val_metric_results' = results
          /\ best_metrics' = IF better THEN results ELSE best_metrics
          /\ epoch_no_improvement' = count
          /\ model_torch' = IF better /\ save_weights
                            THEN save_model(trained, trained, epoch)
                            ELSE model_torch
          /\ best_loss' = IF better THEN val_loss ELSE best_loss
          /\ pc' = IF stop THEN "stopped" ELSE "loop"
          /\ train_writer' = IF stop THEN train_writer
                             ELSE Append(train_writer, [step |-> epoch])
          /\ val_writer' = IF stop THEN val_writer
                           ELSE Append(val_writer,
                                       [step |-> epoch, loss |-> val_loss])
          /\ history' = Append(history, [loss |-> val_loss, improved |-> better])
    /\ epoch' = epoch + 1
    /\ UNCHANGED <<best_metrics_json, test_metrics_json, val_shared,
                   test_shared, run, epochs, patience, min_delta,
                   save_weights, seed, loss_weight, calls, out_features,
                   metrics, weight_arg, call>>

\* load_model_state(path, encoder, optimizer) when the file is there.
load_weights(file) == <<file.model, file.optimizer>>

\* The record train appends to the shared file, line 261.  best_metrics and
\* val_metric_results are the same dict exactly when the last epoch run was
\* the one that last improved (line 219 binds, it does not copy), so the
\* "loss" key of line 255 shows in val_metric_results only then.
TrainSharedRecord(bm, vm) == IF vm.epoch = bm.epoch THEN bm ELSE vm

\* After the loop, lines 255-263.
DLTrainComplete(load_raises) ==
    /\ \/ pc = "stopped"
       \/ pc = "loop" /\ epoch >= epochs
    /\ IF best_metrics = Unbound
       THEN \* line 255 raises UnboundLocalError
            /\ pc' = "raised"
            /\ UNCHANGED <<encoder, optimizer, best_metrics_json, val_shared,
                           best_metrics, val_metric_results>>
       ELSE LET bm == [epoch |-> best_metrics.epoch, loss |-> best_loss]
                vm == TrainSharedRecord(bm, val_metric_results)
            IN /\ best_metrics' = bm
               /\ val_metric_results' = vm
               /\ best_metrics_json' = bm
               /\ val_shared' = append_results(val_shared, vm, seed)
               /\ IF model_torch # NoFile
                  THEN /\ encoder' = load_weights(model_torch)[1]
                       /\ optimizer' = load_weights(model_torch)[2]
                       /\ pc' = "returned"
                  ELSE /\ UNCHANGED <<encoder, optimizer>>
                       /\ pc' = IF load_raises THEN "raised" ELSE "returned"
    /\ call' = [call EXCEPT !.state = pc']
    /\ UNCHANGED <<model_torch, test_metrics_json, test_shared, train_writer,
                   val_writer, run, epochs, patience, min_delta, save_weights,
                   seed, loss_weight, best_loss, epoch_no_improvement, epoch,
                   history, calls, out_features, metrics, weight_arg>>

\* ------------------------------------------------------ DLWrapper.test

\* Weight resolution of test, lines 268-269.
TestWeight(w) == IF IsList(w) THEN FloatTensor(w.list) ELSE w

\* What step_fn hands to the loss, lines 138-141: the weight for an output
\* wider than 1, nothing for a regression output.
HandedToLoss(width, w) == IF width > 1 THEN w ELSE None

\* The loss functions take weight=None or a tensor; anything else raises.
LossAccepts(w) == w = None \/ "tensor" \in DOMAIN w

\* The locals of train do not outlive the call.
NoTrainLocals ==
    /\ epochs' = 0 /\ patience' = 0 /\ min_delta' = 0 /\ save_weights' = TRUE
    /\ best_loss' = Inf /\ epoch_no_improvement' = 0
    /\ best_metrics' = Unbound /\ val_metric_results' = Unbound
    /\ epoch' = 0 /\ history' = <<>>

\* The record test appends to the shared file, lines 272-276.
TestSharedRecord(file, results, s) == append_results(file, results, s)

\* test(dataset, seed, weight), lines 265-279; test_loss is the mean loss
\* the evaluation pass yields.
DLTest(s, w, test_loss) ==
    /\ pc \in Callable
    /\ calls < MaxCalls
    /\ calls' = calls + 1
    /\ metrics' = SetMetrics(out_features)
    /\ weight_arg' = w
    /\ seed' = s
    /\ loss_weight' = TestWeight(w)
    /\ NoTrainLocals
    /\ IF LossAccepts(HandedToLoss(out_features, TestWeight(w)))
       THEN LET test_metrics == [model |-> encoder, loss |-> test_loss]
            IN /\ test_metrics_json' = test_metrics
               /\ test_shared' = TestSharedRecord(test_shared, test_metrics, s)
               /\ pc' = "returned"
       ELSE \* the first step_fn call raises inside the loss
            /\ pc' = "raised"
            /\ UNCHANGED <<test_metrics_json, test_shared>>
    /\ call' = [op |-> "DLWrapper.test", seed |-> s, state |-> pc']
    /\ UNCHANGED <<encoder, optimizer, model_torch, best_metrics_json,
                   val_shared, train_writer, val_writer, run, out_features>>

\* ------------------------------------------------------------ MLWrapper

\* The label vectors the datasets hand to MLWrapper: the number of unique
\* values, whether the first ten labels (labels[:10]) are all integer-valued,
\* and whether the labels after the first ten are (TRUE when there are none).
LabelVectors ==
    {[nunique |-> 2, head_int |-> TRUE, tail_int |-> TRUE],
     [nunique |-> 3, head_int |-> TRUE, tail_int |-> TRUE],
     [nunique |-> 3, head_int |-> TRUE, tail_int |-> FALSE],
     [nunique |-> 3, head_int |-> FALSE, tail_int |-> TRUE]}

\* MLWrapper.set_metrics, lines 315-343.
MLSetMetrics(labels) ==
    IF labels.nunique = 2 THEN {"PR", "AUC", "ROC", "PRC"}
    ELSE IF labels.head_int THEN {"Accuracy", "BalancedAccuracy"}
    ELSE {"MAE"}

\* isinstance(self.model, lightgbm.basic.Booster)
IsBooster(model) == model.kind = "booster"

\* The output transform set_metrics installs, lines 317-342 (no scaler set).
MLOutputTransform(model, labels) ==
    IF labels.nunique = 2
    THEN IF IsBooster(model) THEN "identity" ELSE "positive column"
    ELSE IF labels.head_int THEN "argmax"
    ELSE "identity"

\* The prediction method of train, lines 377-382.
TrainPredict(m) == IF "MAE" \in m THEN "predict" ELSE "predict_proba"

\* The prediction method of test, lines 416-419.
TestPredict(model, m) ==
    IF "MAE" \in m \/ IsBooster(model) THEN "predict" ELSE "predict_proba"

\* "eval_set" in inspect.getfullargspec(self.model.fit).args, line 359.
HasEvalSet(model) == model.kind = "lgbm"

\* MLWrapper.save_weights, lines 438-442, called with model.txt for the
\* boosting path and model.joblib otherwise (lines 403-406): the file's
\* suffix, its format and the estimator it holds.
MLSaveWeights(model, model_type) ==
    [suffix |-> IF model_type = "lgbm" THEN "txt" ELSE "joblib",
     format |-> IF model_type = "lgbm" THEN "booster text" ELSE "joblib",
     model |-> model]

\* MLWrapper.load_weights, lines 444-449: a .txt file is read as a Booster,
\* any other file is unpickled to the estimator that was dumped.
MutLoadAlwaysJoblib(file) == file.model
MLLoadWeights(file) ==
    IF file.suffix = "txt"
    THEN [kind |-> "booster", fits |-> file.model.fits]
    ELSE file.model

\* load_weights(logdir/model.*) on the file train left in the log directory.
MLLoad ==
    /\ pc \in Callable
    /\ ml_model_file # NoFile
    /\ ml_model' = MLLoadWeights(ml_model_file)
    /\ call' = [op |-> "MLWrapper.load_weights", seed |-> call.seed,
                state |-> "returned"]
    /\ UNCHANGED <<ml_metrics, ml_model_file, ml_val_json, ml_test_json,
                   ml_transform, ml_predict, val_shared, test_shared, calls>>

\* The record MLWrapper.train appends, line 411.
MLTrainSharedRecord(file, results, s) == append_results(file, results, s)

\* The record MLWrapper.test appends, line 436.
MutOverwriteShared(file, results, s) ==
    [t \in Seeds |-> IF t = s THEN results ELSE NoRecord]
MLTestSharedRecord(file, results, s) == append_results(file, results, s)

\* MLWrapper.train, lines 349-411; best_score is the validation score the
\* boosting fit tracks.  A reloaded Booster has neither get_params nor fit:
\* line 356 raises after set_metrics has run.
MLTrain(s, labels, sw, best_score) ==
    /\ pc \in Callable
    /\ calls < MaxCalls
    /\ calls' = calls + 1
    /\ ml_metrics' = MLSetMetrics(labels)
    /\ ml_transform' = MLOutputTransform(ml_model, labels)
    /\ IF IsBooster(ml_model)
       THEN /\ call' = [op |-> "MLWrapper.train", seed |-> s,
                        state |-> "raised", labels |-> labels,
                        save_weights |-> sw]
            /\ UNCHANGED <<ml_model, ml_model_file, ml_val_json, val_shared,
                           ml_predict>>
       ELSE LET m == MLSetMetrics(labels)
                model_type == IF HasEvalSet(ml_model) THEN "lgbm" ELSE "sklearn"
                val_loss == IF HasEvalSet(ml_model) THEN best_score ELSE 0
                fitted == [kind |-> ml_model.kind, fits |-> ml_model.fits + 1]
                val_metric == [model |-> fitted, loss |-> val_loss, names |-> m]
            IN /\ ml_predict' = TrainPredict(m)
               /\ ml_model' = fitted
               /\ ml_model_file' =
                     IF sw THEN MLSaveWeights(fitted, model_type)
                     ELSE ml_model_file
               /\ ml_val_json' = val_metric
               /\ val_shared' = MLTrainSharedRecord(val_shared, val_metric, s)
               /\ call' = [op |-> "MLWrapper.train", seed |-> s,
                           state |-> "returned", labels |-> labels,
                           save_weights |-> sw]
    /\ UNCHANGED <<ml_test_json, test_shared>>

\* MLWrapper.test, lines 413-436.
MLTest(s, labels) ==
    /\ pc \in Callable
    /\ calls < MaxCalls
    /\ calls' = calls + 1
    /\ LET m == MLSetMetrics(labels)
           test_metric == [model |-> ml_model, names |-> m]
       IN /\ ml_metrics' = m
          /\ ml_transform' = MLOutputTransform(ml_model, labels)
          /\ ml_predict' = TestPredict(ml_model, m)
          /\ ml_test_json' = test_metric
          /\ test_shared' = MLTestSharedRecord(test_shared, test_metric, s)
    /\ call' = [op |-> "MLWrapper.test", seed |-> s, state |-> "returned",
                labels |-> labels]
    /\ UNCHANGED <<ml_model, ml_model_file, ml_val_json, val_shared>>

\* What an MLWrapper call leaves alone of the DLWrapper and its directory.
DLUntouched ==
    UNCHANGED <<pc, encoder, optimizer, model_torch, best_metrics_json,
                test_metrics_json, train_writer, val_writer, run, epochs,
                patience, min_delta, save_weights, seed, loss_weight,
                best_loss, epoch_no_improvement, best_metrics,
                val_metric_results, epoch, history, out_features, metrics,
                weight_arg>>

\* --------------------------------------------------- recipes/step.py

\* The tables a step is fit on and applied to: an identity (standing for
\* the values) and the predictor columns, in table order.
Tables ==
    {[id |-> 1, cols |-> <<"a">>],
     [id |-> 2, cols |-> <<"a", "b">>],
     [id |-> 3, cols |-> <<"b">>]}

\* sel(data), all_predictors(): the table's predictor columns.
sel(table) == table.cols

Range(f) == {f[i] : i \in DOMAIN f}

\* An attribute that was never assigned (self.scalers, self._transformers).
NoAttr == <<[absent |-> TRUE]>>

\* The configurations a Step is constructed with.
StepConfigs ==
    {[kind |-> "StepImputeFill", columnwise |-> FALSE, is_in_place |-> TRUE],
     [kind |-> "StepScale", columnwise |-> FALSE, is_in_place |-> TRUE],
     [kind |-> "StepHistorical", columnwise |-> FALSE, is_in_place |-> TRUE]}
    \cup {[kind |-> "StepSklearn", columnwise |-> cw, is_in_place |-> ip] :
            cw \in BOOLEAN, ip \in BOOLEAN}

\* Step.__init__ (lines 8-12) and the subclasses' constructors.
NewStep(cfg) ==
    [kind |-> cfg.kind, columnwise |-> cfg.columnwise,
     is_in_place |-> cfg.is_in_place,
     columns |-> <<>>, trained |-> FALSE,
     group |-> cfg.kind \in {"StepImputeFill", "StepHistorical"},
     scalers |-> NoAttr, transformers |-> NoAttr]

\* An external transform object that was never fit.
Unfitted == [fitted |-> FALSE, table |-> 0, cols |-> <<>>]

\* A sub-transformer after fit on the given columns of the table.
FittedOn(table, cols) == [fitted |-> TRUE, table |-> table.id, cols |-> cols]

\* The fit of one column after another (dict comprehension of lines 73-76,
\* loop of lines 130-132): an entry per column, in order.
PerColumn(table, cols) ==
    [i \in 1..Len(cols) |-> [col |-> cols[i], fit |-> FittedOn(table, <<cols[i]>>)]]

\* Which fits can raise part-way: those that call an external fit.
CanRaise(st) == st.kind \in {"StepScale", "StepSklearn"}

\* fit(data).  fail_at = 0: every external fit succeeds; fail_at = k: the
\* k-th external fit raises (the joint fit of line 134 counts as the first).
\* Yields the step and the external object after the call.
MutFitKeepsColumns(st, sk, table, fail_at) ==
    LET cols == sel(table)
    IN [step |-> [st EXCEPT !.columns = IF st.trained THEN @ ELSE cols,
                            !.trained = TRUE],
        sk |-> sk, raised |-> FALSE]
StepFit(st, sk, table, fail_at) ==
    LET cols == sel(table)
        done == IF fail_at = 0 THEN Len(cols) ELSE fail_at - 1
    IN IF st.kind \in {"StepImputeFill", "StepHistorical"}
       THEN \* lines 52-54, 96-98
            [step |-> [st EXCEPT !.columns = cols, !.trained = TRUE],
             sk |-> sk, raised |-> FALSE]
       ELSE IF st.kind = "StepScale"
       THEN \* lines 71-77
            IF fail_at = 0
            THEN [step |-> [st EXCEPT !.columns = cols,
                                      !.scalers = PerColumn(table, cols),
                                      !.trained = TRUE],
                  sk |-> sk, raised |-> FALSE]
            ELSE [step |-> [st EXCEPT !.columns = cols],
                  sk |-> sk, raised |-> TRUE]
       ELSE IF st.columnwise
       THEN \* lines 127-132, 135
            [step |-> [st EXCEPT
                        !.columns = cols,
                        !.transformers = SubSeq(PerColumn(table, cols), 1, done),
                        !.trained = IF fail_at = 0 THEN TRUE ELSE @],
             sk |-> IF done = 0 THEN sk
                    ELSE FittedOn(table, <<cols[done]>>),
             raised |-> fail_at # 0]
       ELSE \* lines 127, 134-135
            IF fail_at = 0
            THEN [step |-> [st EXCEPT !.columns = cols, !.trained = TRUE],
                  sk |-> FittedOn(table, cols), raised |-> FALSE]
            ELSE [step |-> [st EXCEPT !.columns = cols],
                  sk |-> sk, raised |-> TRUE]

\* The longest prefix of cols whose members all satisfy ok.
RECURSIVE GoodPrefix(_, _)
GoodPrefix(cols, ok) ==
    IF cols = <<>> \/ Head(cols) \notin ok THEN <<>>
    ELSE <<Head(cols)>> \o GoodPrefix(Tail(cols), ok)

Keys(entries) == IF entries = NoAttr THEN {} ELSE {entries[i].col : i \in DOMAIN entries}

KeySeq(entries) == [i \in DOMAIN entries |-> entries[i].col]

\* A transform call's effect on the table: whether it returned, the columns
\* it read, the columns it wrote (before raising, when it raised).
Effect(ok, read, written) ==
    [status |-> IF ok THEN "ok" ELSE "raised", read |-> read, written |-> written]

\* The external transform accepts the frame: it was fit, and on as many
\* columns; column names are enforced only by some library versions.
SkAccepts(sk, cols, names_checked) ==
    /\ sk.fitted
    /\ Len(sk.cols) = Len(cols)
    /\ names_checked => sk.cols = cols

Derived(cols, tag) == [i \in DOMAIN cols |-> cols[i] \o "_" \o tag]

\* transform(data)
StepTransform(st, sk, table, names_checked) ==
    LET have == Range(table.cols)
        all_there == Range(st.columns) \subseteq have
    IN IF st.kind = "StepImputeFill"
       THEN \* lines 56-60
            IF all_there THEN Effect(TRUE, st.columns, st.columns)
            ELSE Effect(FALSE, <<>>, <<>>)
       ELSE IF st.kind = "StepScale"
       THEN \* lines 79-83
            IF st.scalers = NoAttr THEN Effect(FALSE, <<>>, <<>>)
            ELSE LET keys == KeySeq(st.scalers)
                     okp == GoodPrefix(keys, have)
                 IN Effect(okp = keys, okp, okp)
       ELSE IF st.kind = "StepHistorical"
       THEN \* lines 100-113
            IF all_there
            THEN Effect(TRUE, st.columns, Derived(st.columns, "max"))
            ELSE Effect(FALSE, <<>>, <<>>)
       ELSE IF st.columnwise
       THEN \* lines 140-144
            LET okp == GoodPrefix(st.columns, have \cap Keys(st.transformers))
            IN Effect(okp = st.columns, okp,
                      IF st.is_in_place THEN okp ELSE Derived(okp, "1"))
       ELSE \* lines 146-148
            IF all_there /\ SkAccepts(sk, st.columns, names_checked)
            THEN Effect(TRUE, st.columns,
                        IF st.is_in_place THEN st.columns
                        ELSE [i \in DOMAIN st.columns |-> "transform_" \o ToString(i)])
            ELSE Effect(FALSE, <<>>, <<>>)

\* What a call leaves in tr.
Outcome(op, table, was_trained, frozen, eff) ==
    [op |-> op, table |-> table.id, was_trained |-> was_trained,
     frozen |-> frozen, status |-> eff.status, read |-> eff.read,
     written |-> eff.written]

NoEffect(raised) == Effect(~raised, <<>>, <<>>)

\* step.fit(data)
Fit(table, fail_at) ==
    /\ step_calls < MaxStepCalls
    /\ fail_at \in 0..Len(sel(table))
    /\ fail_at # 0 => CanRaise(step)
    /\ (fail_at > 1) => (step.kind = "StepScale" \/ step.columnwise)
    /\ LET r == StepFit(step, sk_obj, table, fail_at)
       IN /\ step' = r.step
          /\ sk_obj' = r.sk
          /\ completed_cols' = IF r.raised THEN completed_cols ELSE sel(table)
          /\ tr' = Outcome("fit", table, step.trained, completed_cols,
                           NoEffect(r.raised))
    /\ step_calls' = step_calls + 1

\* step.transform(data)
Transform(table, names_checked) ==
    /\ step_calls < MaxStepCalls
    /\ tr' = Outcome("transform", table, step.trained, completed_cols,
                     StepTransform(step, sk_obj, table, names_checked))
    /\ step_calls' = step_calls + 1
    /\ UNCHANGED <<step, sk_obj, completed_cols>>

\* step.fit_transform(data), lines 28-30: fit, then transform on the step as
\* fit left it; when fit raises, transform is not reached.
MutTransformBeforeFit(table, fail_at, names_checked) ==
    /\ step_calls < MaxStepCalls
    /\ fail_at \in 0..Len(sel(table))
    /\ fail_at # 0 => CanRaise(step)
    /\ (fail_at > 1) => (step.kind = "StepScale" \/ step.columnwise)
    /\ LET r == StepFit(step, sk_obj, table, fail_at)
           cc == IF r.raised THEN completed_cols ELSE sel(table)
       IN /\ step' = r.step
          /\ sk_obj' = r.sk
          /\ completed_cols' = cc
          /\ tr' = Outcome("fit_transform", table, r.step.trained, cc,
                           IF r.raised THEN NoEffect(TRUE)
                           ELSE StepTransform(step, sk_obj, table,
                                              names_checked))
    /\ step_calls' = step_calls + 1
FitTransform(table, fail_at, names_checked) ==
    /\ step_calls < MaxStepCalls
    /\ fail_at \in 0..Len(sel(table))
    /\ fail_at # 0 => CanRaise(step)
    /\ (fail_at > 1) => (step.kind = "StepScale" \/ step.columnwise)
    /\ LET r == StepFit(step, sk_obj, table, fail_at)
           cc == IF r.raised THEN completed_cols ELSE sel(table)
       IN /\ step' = r.step
          /\ sk_obj' = r.sk
          /\ completed_cols' = cc
          /\ tr' = Outcome("fit_transform", table, r.step.trained, cc,
                           IF r.raised THEN NoEffect(TRUE)
                           ELSE StepTransform(r.step, r.sk, table,
                                              names_checked))
    /\ step_calls' = step_calls + 1

\* No fit has completed yet.
NoFitYet == <<"no fit yet">>

\* What transform(data) of a step puts into the table: the columns it reads
\* and writes, and the fitted sub-state the written values are computed
\* with (the wrapped object in joint mode, the step's own copies otherwise).
TransformOutput(st, sk, table, names_checked) ==
    [effect |-> StepTransform(st, sk, table, names_checked),
     computed_with |->
        IF st.kind = "StepScale" THEN [own |-> st.scalers]
        ELSE IF st.kind = "StepSklearn" /\ st.columnwise
        THEN [own |-> st.transformers]
        ELSE IF st.kind = "StepSklearn" THEN [shared |-> sk]
        ELSE [own |-> <<>>]]

\* fit(data) on the second step.
FitB(table, fail_at) ==
    /\ step_calls < MaxStepCalls
    /\ fail_at \in 0..Len(sel(table))
    /\ fail_at # 0 => CanRaise(step_b)
    /\ (fail_at > 1) => (step_b.kind = "StepScale" \/ step_b.columnwise)
    /\ LET r == StepFit(step_b, sk_obj, table, fail_at)
       IN /\ step_b' = r.step
          /\ sk_obj' = r.sk
          /\ tr' = [Outcome("fit", table, step_b.trained, NoFitYet,
                            NoEffect(r.raised)) EXCEPT !.op = "b.fit"]
    /\ step_calls' = step_calls + 1
    /\ UNCHANGED <<step, completed_cols>>

\* transform(data) on the second step.
TransformB(table, names_checked) ==
    /\ step_calls < MaxStepCalls
    /\ tr' = [Outcome("transform", table, step_b.trained, NoFitYet,
                      StepTransform(step_b, sk_obj, table, names_checked))
                EXCEPT !.op = "b.transform"]
    /\ step_calls' = step_calls + 1
    /\ UNCHANGED <<step, sk_obj, completed_cols, step_b>>


InitNoStep ==
    /\ step = NewStep([kind |-> "StepImputeFill", columnwise |-> FALSE,
                       is_in_place |-> TRUE])
    /\ sk_obj = Unfitted
    /\ tr = [op |-> "none"]
    /\ completed_cols = NoFitYet
    /\ step_calls = 0
    /\ step_b = step

\* ------------------------------------- StepHistorical on column values

\* A missing value (NaN); the values a cell may hold.
NaN == -1
Values == {NaN, 1, 2}
Groups == {1, 2}

\* max / min of two numbers.
Agg(fun, a, b) ==
    IF fun = "max" THEN (IF a > b THEN a ELSE b)
    ELSE (IF a < b THEN a ELSE b)

\* GroupBy.cummax(skipna=True) / cummin(skipna=True) on one column, lines
\* 105 and 107: rows are visited in table order with one accumulator per
\* group; a missing value leaves the accumulator alone and yields a missing
\* value at its own row.
RECURSIVE CumAgg(_, _, _, _)
CumAgg(fun, groups, values, accum) ==
    IF values = <<>> THEN <<>>
    ELSE LET g == Head(groups)
             v == Head(values)
             acc == IF v = NaN THEN accum
                    ELSE [accum EXCEPT ![g] = IF @ = NaN THEN v
                                              ELSE Agg(fun, @, v)]
             out == IF v = NaN THEN NaN ELSE acc[g]
         IN <<out>> \o CumAgg(fun, Tail(groups), Tail(values), acc)

Cumulative(fun, groups, values) ==
    CumAgg(fun, groups, values, [g \in Groups |-> NaN])

\* StepHistorical.__init__, lines 87-94: suffix defaults to fun.
NewHistorical(fun, suffix, role) ==
    [fun |-> fun,
     suffix |-> IF suffix = None THEN fun ELSE suffix.name,
     role |-> role]

Reverse(q) == [i \in 1..Len(q) |-> q[Len(q) + 1 - i]]

\* A grouped table with predictor columns a and b: the group of each row,
\* a's values, and b holding a's values in reverse row order.
HistTable(groups, values) ==
    [groups |-> groups,
     data |-> [c \in {"a", "b"} |-> IF c = "a" THEN values ELSE Reverse(values)],
     derived |-> {},
     roles |-> {[col |-> "a", role |-> "predictor"],
                [col |-> "b", role |-> "predictor"]}]

\* StepHistorical.transform, lines 100-113, of a step fit on `columns`.
HistTransform(h) ==
    IF h.step.fun \notin {"max", "min"}
    THEN \* res is never bound: line 108 raises
         [h EXCEPT !.status = "raised"]
    ELSE LET new_columns == Derived(h.columns, h.step.suffix)
             res == [i \in DOMAIN h.columns |->
                        Cumulative(h.step.fun, h.table.groups,
                                   h.table.data[h.columns[i]])]
         IN [h EXCEPT
               !.status = "ok",
               !.table.derived =
                    {[col |-> new_columns[i], values |-> res[i]] :
                        i \in DOMAIN new_columns},
               !.table.roles =
                    @ \cup {[col |-> new_columns[i], role |-> h.step.role] :
                                i \in DOMAIN new_columns}]

HistTransformCall ==
    /\ hist.status = "not called"
    /\ hist' = HistTransform(hist)

\* No StepHistorical is in play.
InitNoHist ==
    hist = [step |-> NewHistorical("max", None, "predictor"),
            columns |-> <<>>, table |-> HistTable(<<>>, <<>>),
            status |-> "not called"]

\* ------------------------------ _do_training and evaluate, batch by batch

RECURSIVE Sum(_)
Sum(q) == IF q = <<>> THEN 0 ELSE Head(q) + Sum(Tail(q))

\* float(sum(losses) / (t + 1)), lines 161 and 296.  The batch losses of the
\* model are multiples of 12, so the division is exact for up to 4 batches.
Mean(q) == Sum(q) \div Len(q)

\* The parameters (or the optimizer state) after loss.backward() and
\* optimizer.step() on one more batch, lines 151-153.
Stepped(p) == [after |-> p]

\* What a batch of evaluate does to the parameters and the optimizer state:
\* torch.no_grad(), no backward, no optimizer step (lines 285-290).
MutEvalStepTrains(p) == Stepped(p)
EvalStep(p) == p

\* metric.update(...) of every metric with the batch, lines 155-156, 289-290.
MetricUpdate(acc, b) == Append(acc, b)

\* metric.reset() of every metric after compute(), lines 158-160, 293-295.
MutKeepAccumulated(acc) == acc
MetricReset(acc) == <<>>

\* The batch a loader yields: which pass it belongs to and its position.
BatchOf(kind, e, i) == [pass |-> kind, epoch |-> e, index |-> i]

\* The pass state while no pass is under way.
NoPass == [kind |-> "none", i |-> 0, losses |-> <<>>,
           sizes |-> [train |-> 0, eval |-> 0], out |-> None]

InitNoPass == pass = NoPass

\* What the pass actions leave alone outside the DLWrapper.
PassRest == <<mlvars, stepvars, hist, batch, has_aux, step_out, encoder_calls>>

\* train(...) up to the loop, with loaders of nt and nv batches (lines
\* 178-208); set_metrics builds new metric objects.
PassTrainCall(e, p, d, sw, s, w, nt, nv) ==
    /\ DLTrainBegin(e, p, d, sw, s, w)
    /\ metric_acc' = <<>>
    /\ pass' = [NoPass EXCEPT !.sizes = [train |-> nt, eval |-> nv]]
    /\ UNCHANGED PassRest

\* Line 212 enters _do_training: train_loss = [], self.encoder.train().
PassTrainStart ==
    /\ pc = "loop"
    /\ epoch < epochs
    /\ pc' = "train_pass"
    /\ pass' = [pass EXCEPT !.kind = "train", !.i = 0, !.losses = <<>>]
    /\ UNCHANGED <<encoder, optimizer, model_torch, best_metrics_json,
                   test_metrics_json, val_shared, test_shared, train_writer,
                   val_writer, run, epochs, patience, min_delta, save_weights,
                   seed, loss_weight, best_loss, epoch_no_improvement,
                   best_metrics, val_metric_results, epoch, history, calls,
                   out_features, metrics, weight_arg, call, metric_acc>>
    /\ UNCHANGED PassRest

\* One iteration of the loop of lines 149-156 on a batch of loss l; when the
\* loader yields an element of unsupported arity step_fn raises (line 130).
PassTrainBatch(l, well_formed) ==
    /\ pc = "train_pass"
    /\ pass.i < pass.sizes.train
    /\ IF well_formed
       THEN /\ encoder' = Stepped(encoder)
            /\ optimizer' = Stepped(optimizer)
            /\ pass' = [pass EXCEPT !.i = @ + 1, !.losses = Append(@, l)]
            /\ metric_acc' = MetricUpdate(metric_acc,
                                          BatchOf("train", epoch, pass.i + 1))
            /\ UNCHANGED <<pc, call>>
       ELSE /\ pc' = "raised"
            /\ call' = [call EXCEPT !.state = "raised"]
            /\ UNCHANGED <<encoder, optimizer, pass, metric_acc>>
    /\ UNCHANGED <<model_torch, best_metrics_json, test_metrics_json,
                   val_shared, test_shared, train_writer, val_writer, run,
                   epochs, patience, min_delta, save_weights, seed,
                   loss_weight, best_loss, epoch_no_improvement, best_metrics,
                   val_metric_results, epoch, history, calls, out_features,
                   metrics, weight_arg>>
    /\ UNCHANGED PassRest

\* The result of a pass: compute() of every metric on what it accumulated,
\* and the mean of the batch losses.
PassResult(kind, e, acc, losses) ==
    [kind |-> kind, epoch |-> e, metrics |-> acc, loss |-> Mean(losses),
     batch_losses |-> losses]

\* The loader is exhausted: lines 157-162, then line 215 enters evaluate
\* (self.encoder.eval(), eval_loss = []).  With an empty loader t is unbound
\* and line 161 raises.
PassTrainEnd ==
    /\ pc = "train_pass"
    /\ pass.i = pass.sizes.train
    /\ metric_acc' = MetricReset(metric_acc)
    /\ IF pass.i = 0
       THEN /\ pc' = "raised"
            /\ call' = [call EXCEPT !.state = "raised"]
            /\ UNCHANGED pass
       ELSE /\ pc' = "val_pass"
            /\ pass' = [pass EXCEPT
                          !.kind = "val", !.i = 0, !.losses = <<>>,
                          !.out = PassResult("train", epoch, metric_acc,
                                             pass.losses)]
            /\ UNCHANGED call
    /\ UNCHANGED <<encoder, optimizer, model_torch, best_metrics_json,
                   test_metrics_json, val_shared, test_shared, train_writer,
                   val_writer, run, epochs, patience, min_delta, save_weights,
                   seed, loss_weight, best_loss, epoch_no_improvement,
                   best_metrics, val_metric_results, epoch, history, calls,
                   out_features, metrics, weight_arg>>
    /\ UNCHANGED PassRest

\* One iteration of the loop of lines 286-290, in the validation pass of
\* train or in test.
PassEvalBatch(l, well_formed) ==
    /\ pc \in {"val_pass", "test_pass"}
    /\ pass.i < pass.sizes.eval
    /\ IF well_formed
       THEN /\ encoder' = EvalStep(encoder)
            /\ optimizer' = EvalStep(optimizer)
            /\ pass' = [pass EXCEPT !.i = @ + 1, !.losses = Append(@, l)]
            /\ metric_acc' = MetricUpdate(metric_acc,
                                          BatchOf(pass.kind, epoch, pass.i + 1))
            /\ UNCHANGED <<pc, call>>
       ELSE /\ pc' = "raised"
            /\ call' = [call EXCEPT !.state = "raised"]
            /\ UNCHANGED <<encoder, optimizer, pass, metric_acc>>
    /\ UNCHANGED <<model_torch, best_metrics_json, test_metrics_json,
                   val_shared, test_shared, train_writer, val_writer, run,
                   epochs, patience, min_delta, save_weights, seed,
                   loss_weight, best_loss, epoch_no_improvement, best_metrics,
                   val_metric_results, epoch, history, calls, out_features,
                   metrics, weight_arg>>
    /\ UNCHANGED PassRest

\* The validation loader is exhausted: lines 292-297 of evaluate, then early
\* stopping and logging, lines 218-253.  With an empty loader v is unbound
\* and line 296 raises.
PassValEnd ==
    /\ pc = "val_pass"
    /\ pass.i = pass.sizes.eval
    /\ metric_acc' = MetricReset(metric_acc)
    /\ IF pass.i = 0
       THEN /\ pc' = "raised"
            /\ call' = [call EXCEPT !.state = "raised"]
            /\ UNCHANGED <<pass, val_metric_results, best_metrics,
                           epoch_no_improvement, model_torch, best_loss,
                           train_writer, val_writer, history, epoch>>
       ELSE LET val_loss == Mean(pass.losses)
                results == [epoch |-> epoch]
                better == Improved(val_loss, best_loss, min_delta)
                count == IF better THEN 0 ELSE epoch_no_improvement + 1
                stop == ShouldStop(count, patience)
            IN /\ pass' = [pass EXCEPT
                             !.kind = "none",
                             !.out = PassResult("val", epoch, metric_acc,
                                                pass.losses)]
               /\ val_metric_results' = results
               /\ best_metrics' = IF better THEN results ELSE best_metrics
               /\ epoch_no_improvement' = count
               /\ model_torch' = IF better /\ save_weights
                                 THEN save_model(encoder, optimizer, epoch)
                                 ELSE model_torch
               /\ best_loss' = IF better THEN val_loss ELSE best_loss
               /\ pc' = IF stop THEN "stopped" ELSE "loop"
               /\ train_writer' = IF stop THEN train_writer
                                  ELSE Append(train_writer, [step |-> epoch])
               /\ val_writer' = IF stop THEN val_writer
                                ELSE Append(val_writer,
                                            [step |-> epoch, loss |-> val_loss])
               /\ history' = Append(history,
                                    [loss |-> val_loss, improved |-> better])
               /\ epoch' = epoch + 1
               /\ UNCHANGED call
    /\ UNCHANGED <<encoder, optimizer, best_metrics_json, test_metrics_json,
                   val_shared, test_shared, run, epochs, patience, min_delta,
                   save_weights, seed, loss_weight, calls, out_features,
                   metrics, weight_arg>>
    /\ UNCHANGED PassRest

\* test(dataset, seed, weight) up to the loop of evaluate, lines 266-270 and
\* 282-283, with a loader of n batches.
PassTestBegin(s, w, n) ==
    /\ pc \in Callable
    /\ calls < MaxCalls
    /\ calls' = calls + 1
    /\ metrics' = SetMetrics(out_features)
    /\ metric_acc' = <<>>
    /\ weight_arg' = w
    /\ seed' = s
    /\ loss_weight' = TestWeight(w)
    /\ NoTrainLocals
    /\ pc' = "test_pass"
    /\ call' = [op |-> "DLWrapper.test", seed |-> s, state |-> "running"]
    /\ pass' = [NoPass EXCEPT !.kind = "test",
                              !.sizes = [train |-> 0, eval |-> n]]
    /\ UNCHANGED <<encoder, optimizer, model_torch, best_metrics_json,
                   test_metrics_json, val_shared, test_shared, train_writer,
                   val_writer, run, out_features>>
    /\ UNCHANGED PassRest

\* The test loader is exhausted: lines 292-297, then lines 272-279.
PassTestEnd ==
    /\ pc = "test_pass"
    /\ pass.i = pass.sizes.eval
    /\ metric_acc' = MetricReset(metric_acc)
    /\ IF pass.i = 0
       THEN /\ pc' = "raised"
            /\ UNCHANGED <<pass, test_metrics_json, test_shared>>
       ELSE LET test_metrics == [model |-> encoder, loss |-> Mean(pass.losses)]
            IN /\ pass' = [pass EXCEPT
                             !.kind = "none",
                             !.out = PassResult("test", epoch, metric_acc,
                                                pass.losses)]
               /\ test_metrics_json' = test_metrics
               /\ test_shared' =
                     TestSharedRecord(test_shared, test_metrics, seed)
               /\ pc' = "returned"
    /\ call' = [call EXCEPT !.state = pc']
    /\ UNCHANGED <<encoder, optimizer, model_torch, best_metrics_json,
                   val_shared, train_writer, val_writer, run, epochs,
                   patience, min_delta, save_weights, seed, loss_weight,
                   best_loss, epoch_no_improvement, best_metrics,
                   val_metric_results, epoch, history, calls, out_features,
                   metrics, weight_arg>>
    /\ UNCHANGED PassRest

\* ------------------------------------------------------ specifications

InitDL ==
    /\ pc = "idle"
    /\ encoder = Fresh
    /\ optimizer = Fresh
    /\ model_torch \in {NoFile, Earlier}
    /\ best_metrics_json = NoFile
    /\ test_metrics_json = NoFile
    /\ val_shared = EmptyShared
    /\ test_shared = EmptyShared
    /\ train_writer = <<>>
    /\ val_writer = <<>>
    /\ run = 0
    /\ epochs = 0 /\ patience = 0 /\ min_delta = 0
    /\ save_weights = TRUE /\ seed = 1
    /\ loss_weight = None
    /\ weight_arg = None
    /\ call = [op |-> "none", seed |-> 1, state |-> "returned"]
    /\ metrics = {}
    /\ best_loss = Inf
    /\ epoch_no_improvement = 0
    /\ best_metrics = Unbound
    /\ val_metric_results = Unbound
    /\ epoch = 0
    /\ history = <<>>
    /\ calls = 0

InitML ==
    /\ ml_model \in {[kind |-> "lgbm", fits |-> 0],
                     [kind |-> "sklearn", fits |-> 0]}
    /\ ml_metrics = {}
    /\ ml_model_file = NoFile
    /\ ml_val_json = NoFile
    /\ ml_test_json = NoFile
    /\ ml_transform = "not set"
    /\ ml_predict = "none"

\* -- Spec: one DLWrapper.train call, with every hyperparameter covered.

Init ==
    /\ InitDL /\ InitML /\ InitFn /\ InitNoStep /\ InitNoHist /\ InitNoPass
    /\ out_features = 2 /\ ml_model.kind = "lgbm"

TrainCall ==
    /\ pc = "idle"
    /\ \E e \in 0..MaxEpochs, p \in 0..MaxPatience, d \in MinDeltas,
          sw \in BOOLEAN, s \in Seeds :
            DLTrainBegin(e, p, d, sw, s, [str |-> "balanced"])
    /\ UNCHANGED notDL

Epoch == (\E l \in Losses : DLEpoch(l)) /\ UNCHANGED notDL

TrainComplete == (\E r \in BOOLEAN : DLTrainComplete(r)) /\ UNCHANGED notDL

Next == TrainCall \/ Epoch \/ TrainComplete

Spec == Init /\ [][Next]_vars

\* -- SpecRuns: sequences of train and test calls of both wrappers, whose
\*    log directories share one parent; short training runs.

RunLosses == {90}
RunScores == {40}
TestLosses == {50}
\* The output widths an encoder's logit layer may have.
Widths == 1..MaxWidth
RunLabels == {[nunique |-> 2, head_int |-> TRUE, tail_int |-> TRUE],
              [nunique |-> 3, head_int |-> TRUE, tail_int |-> FALSE],
              [nunique |-> 3, head_int |-> FALSE, tail_int |-> TRUE]}

InitRuns ==
    /\ InitDL /\ InitML /\ InitFn /\ InitNoStep /\ InitNoHist /\ InitNoPass
    /\ model_torch = NoFile
    /\ out_features \in Widths

RunTrainCall ==
    /\ \E e \in 0..1, sw \in BOOLEAN, s \in Seeds, w \in WeightArgs :
            DLTrainBegin(e, 1, 0, sw, s, w)
    /\ UNCHANGED notDL

RunEpoch == (\E l \in RunLosses : DLEpoch(l)) /\ UNCHANGED notDL

RunTestCall ==
    /\ \E s \in Seeds, w \in WeightArgs, l \in TestLosses : DLTest(s, w, l)
    /\ UNCHANGED notDL

RunMLTrain ==
    /\ \E s \in Seeds, y \in RunLabels, b \in RunScores :
            MLTrain(s, y, TRUE, b)
    /\ DLUntouched /\ UNCHANGED others

RunMLTest ==
    /\ \E s \in Seeds, y \in RunLabels : MLTest(s, y)
    /\ DLUntouched /\ UNCHANGED others

\* Between two calls the caller, who holds the encoder it passed to the
\* constructor (line 64), gives it a logit layer of another width.
RunSwapHead ==
    /\ pc \in Callable
    /\ out_features' \in Widths \ {out_features}
    /\ UNCHANGED <<pc, encoder, optimizer, model_torch, best_metrics_json,
                   test_metrics_json, val_shared, test_shared, train_writer,
                   val_writer, run, epochs, patience, min_delta, save_weights,
                   seed, loss_weight, best_loss, epoch_no_improvement,
                   best_metrics, val_metric_results, epoch, history, calls,
                   metrics, weight_arg, call>>
    /\ UNCHANGED notDL

NextRuns ==
    \/ RunTrainCall \/ RunEpoch \/ TrainComplete
    \/ RunTestCall \/ RunMLTrain \/ RunMLTest \/ RunSwapHead

SpecRuns == InitRuns /\ [][NextRuns]_vars

\* ------------------------------------------------ claims on DLWrapper.train

\* The indices (1-based positions in history) of the epochs run so far.
EpochsRun == 1..Len(history)

\* The number of consecutive epochs, ending with the last of h, that were
\* not counted as an improvement.
RECURSIVE Trailing(_)
Trailing(h) ==
    IF h = <<>> \/ h[Len(h)].improved THEN 0
    ELSE 1 + Trailing(SubSeq(h, 1, Len(h) - 1))

\* The position in history of the last epoch counted as an improvement
\* (0 when there is none).
LastImproved ==
    IF \E i \in EpochsRun : history[i].improved
    THEN CHOOSE i \in EpochsRun :
            /\ history[i].improved
            /\ \A j \in EpochsRun : history[j].improved => j <= i
    ELSE 0

\* The checkpoint save_weights writes in the epoch at position i.
CheckpointOf(i) == save_model(Params(run, i), Params(run, i), i - 1)

\* C1: when train completes (patience >= 1, min_delta >= 0, either value of
\* save_weights), the live encoder holds the parameters of an epoch of this
\* run whose validation loss is <= that of every epoch evaluated.
C1_BestCheckpointLoaded ==
    (pc = "returned" /\ patience >= 1 /\ min_delta >= 0) =>
        \E i \in EpochsRun :
            /\ encoder = Params(run, i)
            /\ \A j \in EpochsRun : history[i].loss <= history[j].loss

\* The spec's early-stopping example, in hundredths.
Example == <<100, 90, 91, 92>>

IsExamplePrefix ==
    /\ patience = 2 /\ min_delta = 1 /\ save_weights /\ epochs >= 4
    /\ Len(history) <= 4
    /\ \A i \in EpochsRun : history[i].loss = Example[i]

C2_State ==
    \* the loop goes on only while the count is below patience
    /\ (pc = "loop" /\ history # <<>>) => Trailing(history) < patience
    \* it is left by break exactly when the count reaches patience
    /\ pc = "stopped" =>
          /\ Trailing(history) >= patience
          /\ \A n \in 1..(Len(history) - 1) :
                Trailing(SubSeq(history, 1, n)) < patience
    \* the example: four epochs run, the checkpoint is the second epoch's
    /\ IsExamplePrefix =>
          /\ Len(history) < 4 => pc = "loop"
          /\ Len(history) = 4 =>
                /\ pc \in {"stopped", "returned"}
                /\ model_torch = CheckpointOf(2)
                /\ best_loss = 90

\* C2: training stops at the end of the first epoch at which the number of
\* consecutive non-improving epochs reaches patience, no epoch is trained or
\* evaluated after that, and losses [1.0, 0.9, 0.91, 0.92] with patience 2
\* and min_delta 0.01 run exactly four epochs and keep the checkpoint of
\* the second epoch (loss 0.9).
C2_StopsAtPatience ==
    /\ []C2_State
    /\ [][pc = "stopped" =>
            /\ history' = history
            /\ epoch' = epoch
            /\ model_torch' = model_torch
            /\ pc' # "loop"]_vars

C2_Witness ==
    /\ IsExamplePrefix /\ Len(history) = 4 /\ pc = "stopped"
    /\ model_torch = CheckpointOf(2)

\* What one epoch step does with the early-stopping state, given the test
\* `better` that is to decide it.
EpochStepFollows(better) ==
    LET i == Len(history) + 1
    IN /\ better =>
            /\ epoch_no_improvement' = 0
            /\ best_metrics' = [epoch |-> i - 1]
            /\ save_weights => model_torch' = CheckpointOf(i)
       /\ ~better =>
            /\ epoch_no_improvement' = epoch_no_improvement + 1
            /\ best_metrics' = best_metrics
            /\ model_torch' = model_torch

IsEpochStep == pc = "loop" /\ Len(history') = Len(history) + 1

NewLoss == history'[Len(history')].loss

\* C3 as stated: the counter is reset (snapshot taken, checkpoint saved) iff
\* the loss is lower than the best so far by MORE than min_delta; an
\* improvement of exactly min_delta increments the counter.
C3_Original ==
    [][IsEpochStep =>
        EpochStepFollows(NewLoss < FloatSub(best_loss, min_delta))]_vars

\* C3 amended: the counter is reset (snapshot taken, checkpoint saved) iff
\* the loss is lower than the best so far by AT LEAST min_delta
\* (val_loss <= best_loss - min_delta); otherwise the counter is incremented
\* and neither the snapshot nor the checkpoint changes.
C3_ResetIffImprovedByAtLeastDelta ==
    [][IsEpochStep =>
        EpochStepFollows(NewLoss <= FloatSub(best_loss, min_delta))]_vars

\* An improvement of exactly min_delta (0.91 then 0.90, min_delta 0.01) has
\* reset the counter.
C3_Witness ==
    /\ min_delta = 1 /\ Len(history) = 2
    /\ history[1].loss = 91 /\ history[2].loss = 90
    /\ epoch_no_improvement = 0 /\ best_loss = 90
    /\ best_metrics = [epoch |-> 1]

BestBelowImprovements ==
    \A i \in EpochsRun : history[i].improved => best_loss <= history[i].loss

BestNeverIncreases == pc = "loop" => best_loss' <= best_loss

\* C4 as stated: for every min_delta, the tracked best loss never increases
\* from one epoch boundary to the next and is <= the loss of every epoch
\* counted as an improvement.
C4_Original ==
    /\ [](pc \in {"loop", "stopped"} => BestBelowImprovements)
    /\ [][BestNeverIncreases]_vars

\* C4 amended: for every min_delta >= 0, the tracked best loss never
\* increases from one epoch boundary to the next and is <= the loss of every
\* epoch counted as an improvement.
C4_BestLossMonotone ==
    /\ []((pc \in {"loop", "stopped"} /\ min_delta >= 0) => BestBelowImprovements)
    /\ [][min_delta >= 0 => BestNeverIncreases]_vars

\* Two epochs were counted as improvements, the second below the first.
C4_Witness ==
    /\ min_delta >= 0 /\ pc = "loop" /\ Len(history) >= 3
    /\ history[1].improved /\ history[2].improved /\ ~history[3].improved
    /\ history[2].loss < history[1].loss
    /\ best_loss = history[2].loss

\* C5: when train completes, best_metrics.json holds the metrics of the
\* best epoch with the best loss under "loss", and the record appended under
\* the run's seed to the shared val_metrics.json is that same record.
C5_BestRecordPersisted ==
    pc = "returned" =>
        LET best == [epoch |-> LastImproved - 1,
                     loss |-> history[LastImproved].loss]
        IN /\ best_metrics_json = best
           /\ val_shared[seed] = best

\* -- SpecStepFn: step_fn applied once to each element a loader may yield.

MaxLen == 2
Features == {0, 1}
Labels == {0, 1}

SeqsUpTo(S, n) == UNION {[1..k -> S] : k \in 1..n}

\* Elements of arity 1 to 4 whose parts have one length.
Batches ==
    UNION {
        {<<d>> : d \in [1..k -> Features]}
        \cup {<<d, l>> : d \in [1..k -> Features], l \in [1..k -> Labels]}
        \cup {<<d, l, m>> : d \in [1..k -> Features], l \in [1..k -> Labels],
                            m \in [1..k -> BOOLEAN]}
        \cup {<<d, l, m, m>> : d \in [1..k -> Features],
                               l \in [1..k -> Labels], m \in [1..k -> BOOLEAN]}
        : k \in 1..MaxLen}

InitStepFn ==
    /\ InitDL /\ InitML /\ InitNoStep /\ InitNoHist /\ InitNoPass
    /\ model_torch = NoFile
    /\ ml_model.kind = "lgbm"
    /\ out_features \in {1, 2}
    /\ batch \in Batches
    /\ has_aux \in BOOLEAN
    /\ step_out = [status |-> "not called"]
    /\ encoder_calls = 0
    /\ metric_acc = <<>>

StepCall == StepFnCall /\ UNCHANGED <<dlvars, mlvars, stepvars, hist, pass>>

NextStepFn == StepCall

SpecStepFn == InitStepFn /\ [][NextStepFn]_vars

\* -- SpecSteps: fit, transform and fit_transform calls on one Step.

InitSteps ==
    /\ InitDL /\ InitML /\ InitFn /\ InitNoHist /\ InitNoPass
    /\ model_torch = NoFile
    /\ ml_model.kind = "lgbm"
    /\ out_features = 2
    /\ \E cfg \in StepConfigs : step = NewStep(cfg)
    /\ sk_obj = Unfitted
    /\ tr = [op |-> "none"]
    /\ completed_cols = NoFitYet
    /\ step_calls = 0
    /\ step_b = step

NotStep == <<dlvars, mlvars, fnvars, hist, pass, step_b>>

FitCall ==
    /\ \E t \in Tables, k \in 0..2 : Fit(t, k)
    /\ UNCHANGED NotStep

TransformCall ==
    /\ \E t \in Tables, n \in BOOLEAN : Transform(t, n)
    /\ UNCHANGED NotStep

FitTransformCall ==
    /\ \E t \in Tables, k \in 0..2, n \in BOOLEAN : FitTransform(t, k, n)
    /\ UNCHANGED NotStep

NextSteps == FitCall \/ TransformCall \/ FitTransformCall

SpecSteps == InitSteps /\ [][NextSteps]_vars

\* ------------------------------------------------------ claims on step_fn

\* C8: step_fn accepts arity 2 or 3 only; a 2-tuple yields the same loss,
\* predictions and labels as the 3-tuple with an all-true mask; any other
\* arity raises before the encoder is called and leaves the parameters, the
\* optimizer state and the metric accumulators unchanged.
C8_StepFnArity ==
    step_out.status # "not called" =>
        /\ Len(batch) = 2 =>
              /\ step_out.status = "ok"
              /\ step_out =
                   step_fn(encoder, has_aux, out_features,
                           <<batch[1], batch[2],
                             [i \in 1..Len(batch[2]) |-> TRUE]>>,
                           loss_weight)
              /\ step_out.label_flat = batch[2]
              /\ Len(step_out.out_flat) = Len(batch[1])
        /\ Len(batch) = 3 => step_out.status = "ok"
        /\ Len(batch) \notin {2, 3} =>
              /\ step_out = StepRaised
              /\ encoder_calls = 0
              /\ encoder = Fresh /\ optimizer = Fresh
              /\ metric_acc = <<>>

\* Both cases happened: a 2-tuple went through, a 4-tuple raised.
C8_Witness ==
    /\ Len(batch) = 2 /\ Len(batch[2]) = MaxLen
    /\ step_out.status = "ok" /\ encoder_calls = 1

C8_WitnessRaised == Len(batch) = 4 /\ step_out = StepRaised

\* --------------------------------------- claims on the cross-run files

TrainOps == {"DLWrapper.train", "MLWrapper.train"}
TestOps == {"DLWrapper.test", "MLWrapper.test"}

\* This step is the normal return of a call.
CallReturns ==
    /\ call'.state = "returned"
    /\ call.state = "running" \/ calls' = calls + 1

\* The step changes `file` at most under the seed of the call it belongs
\* to, and only when that call is one of `ops`.
OnlyOwnSeed(file, fileNext, ops) ==
    \A s \in Seeds :
        fileNext[s] # file[s] => (call'.op \in ops /\ call'.seed = s)

\* C6: each train or test call (of either wrapper) appends exactly one
\* record, keyed by its seed, to the shared cross-run file and leaves the
\* records of every other seed unchanged.
C6_AppendKeepsOtherSeeds ==
    [][/\ OnlyOwnSeed(val_shared, val_shared', TrainOps)
       /\ OnlyOwnSeed(test_shared, test_shared', TestOps)
       /\ (CallReturns /\ call'.op \in TrainOps) =>
            /\ val_shared'[call'.seed] # NoRecord
            /\ val_shared'[call'.seed] =
                 (IF call'.op = "MLWrapper.train" THEN ml_val_json'
                  ELSE val_metric_results')
            /\ test_shared' = test_shared
       /\ (CallReturns /\ call'.op \in TestOps) =>
            /\ test_shared'[call'.seed] # NoRecord
            /\ test_shared'[call'.seed] =
                 (IF call'.op = "MLWrapper.test" THEN ml_test_json'
                  ELSE test_metrics_json')
            /\ val_shared' = val_shared]_vars

\* Two sequential test calls with seeds 1 and 2: both entries are there.
C6_Witness ==
    /\ calls = 2 /\ call.op \in TestOps /\ call.seed = 2
    /\ test_shared[1] # NoRecord /\ test_shared[2] # NoRecord
    /\ test_shared[1] # test_shared[2]

\* C7: whenever DLWrapper resolves its weight argument, in train and in
\* test, a "balanced" argument reaches the loss as the dataset's
\* get_balance() vector and a literal list reaches it as the same numbers.
C7_WeightResolved ==
    (call.op \in {"DLWrapper.train", "DLWrapper.test"} /\ out_features > 1) =>
        LET handed == HandedToLoss(out_features, loss_weight)
        IN /\ IsBalanced(weight_arg) =>
                ("tensor" \in DOMAIN handed /\ handed.tensor = Balance)
           /\ IsList(weight_arg) =>
                ("tensor" \in DOMAIN handed /\ handed.tensor = weight_arg.list)

\* --------------------------------------------------------- claims on Step

\* The call applied transform to the table.
Transformed == tr.op \in {"transform", "fit_transform"}

\* C9: transform never takes effect while the instance is untrained: a
\* transform call made before the instance's fit has completed is rejected
\* with an error rather than operating on the empty or partial fitted state.
C9_TransformNeedsFit ==
    (tr.op = "transform" /\ ~tr.was_trained) =>
        (tr.status = "raised" /\ tr.written = <<>>)

\* C10: transform operates on exactly the column list resolved by the most
\* recent completed fit, whatever the schema of the table it is given, and
\* leaves the resolved columns, the trained flag and the fitted sub-state
\* unchanged.
C10_TransformUsesFrozenColumns ==
    /\ []((tr.op = "transform" /\ tr.was_trained) =>
            /\ tr.status = "ok" => tr.read = tr.frozen
            /\ \A i \in DOMAIN tr.read :
                  i \in DOMAIN tr.frozen /\ tr.read[i] = tr.frozen[i])
    /\ [][tr'.op = "transform" => (step' = step /\ sk_obj' = sk_obj)]_vars

\* The table a call was made on.
TableOf(id) == CHOOSE t \in Tables : t.id = id

\* What fit(data) followed by transform(data) does to a copy of the step (and
\* of the external object it wraps), under the same behaviour of the external
\* library: the step and object left behind and the effect on the table.
FitThenTransform(st, sk, table, fail_at, names_checked) ==
    LET r == StepFit(st, sk, table, fail_at)
    IN [step |-> r.step, sk |-> r.sk,
        effect |-> IF r.raised THEN NoEffect(TRUE)
                   ELSE StepTransform(r.step, r.sk, table, names_checked)]

\* C11: fit_transform(data) yields the same resulting data and leaves the
\* same resolved columns and trained flag as fit(data) followed by
\* transform(data) on an identical copy of the step.
C11_FitTransformComposes ==
    [][tr'.op = "fit_transform" =>
        \E k \in 0..2, n \in BOOLEAN :
            LET two == FitThenTransform(step, sk_obj, TableOf(tr'.table), k, n)
            IN /\ step'.columns = two.step.columns
               /\ step'.trained = two.step.trained
               /\ step' = two.step
               /\ sk_obj' = two.sk
               /\ tr'.status = two.effect.status
               /\ tr'.read = two.effect.read
               /\ tr'.written = two.effect.written]_vars

\* fit_transform on a fresh StepSklearn fit the object and wrote the columns.
C11_Witness ==
    /\ tr.op = "fit_transform" /\ step_calls = 1
    /\ step.kind = "StepSklearn" /\ ~step.columnwise
    /\ tr.status = "ok" /\ tr.written = <<"a", "b">>
    /\ step.trained /\ step.columns = <<"a", "b">>

\* ------------------------------------------------- claims on set_metrics

DLOps == {"DLWrapper.train", "DLWrapper.test"}

\* A DLWrapper call starts (its first statement is self.set_metrics()).
DLCallStarts == calls' = calls + 1 /\ call'.op \in DLOps

\* C12: DLWrapper.set_metrics installs exactly one metric set, determined
\* only by the encoder's output width: width 2 the ranking/calibration set,
\* width 1 the regression set {MAE}, every other width the accuracy set; each
\* call replaces the previous set entirely.
C12_MetricSetByWidth ==
    [][/\ DLCallStarts =>
            /\ out_features = 2 =>
                  metrics' = {"PR", "AUC", "PR_Curve", "ROC_Curve",
                              "Calibration_Curve"}
            /\ out_features = 1 => metrics' = {"MAE"}
            /\ out_features \notin {1, 2} =>
                  metrics' = {"Accuracy", "BalancedAccuracy"}
       /\ metrics' # metrics => DLCallStarts]_vars

\* A second call, after one that installed another set, installed the
\* accuracy set for width 3 and nothing of the earlier set is left.
C12_Witness ==
    /\ calls = 2 /\ call.op = "DLWrapper.test" /\ out_features = 3
    /\ val_shared # EmptyShared
    /\ metrics = {"Accuracy", "BalancedAccuracy"}

MLOps == {"MLWrapper.train", "MLWrapper.test"}

\* Every label of the vector is integer-valued.
AllInt(labels) == labels.head_int /\ labels.tail_int

\* C13: MLWrapper.set_metrics classifies the label vector it is given, of
\* any length: exactly 2 unique values selects the ranking set; otherwise,
\* all labels integer-valued selects the accuracy set with an argmax output
\* transform; otherwise (some label is not an integer) MAE.
C13_MetricSetByLabels ==
    call.op \in MLOps =>
        /\ call.labels.nunique = 2 =>
              ml_metrics = {"PR", "AUC", "ROC", "PRC"}
        /\ (call.labels.nunique # 2 /\ AllInt(call.labels)) =>
              /\ ml_metrics = {"Accuracy", "BalancedAccuracy"}
              /\ ml_transform = "argmax"
        /\ (call.labels.nunique # 2 /\ ~AllInt(call.labels)) =>
              ml_metrics = {"MAE"}

\* -- SpecHist: a trained StepHistorical applied once to a grouped table.

\* The spec's example column, in one group.
HistExample == <<3, 1, 4, 1, 5>>

HistInputs ==
    UNION {{HistTable(g, v) : g \in [1..k -> Groups], v \in [1..k -> Values]}
              : k \in 1..MaxRows}
    \cup {HistTable(<<1, 1, 1, 1, 1>>, HistExample)}

InitHist ==
    /\ InitDL /\ InitML /\ InitFn /\ InitNoStep /\ InitNoPass
    /\ model_torch = NoFile
    /\ ml_model.kind = "lgbm"
    /\ out_features = 2
    /\ \E fun \in {"max", "min", "mean"},
          suffix \in {None, [name |-> "seen"]},
          role \in {"predictor", "history"},
          cols \in {<<"a">>, <<"a", "b">>},
          table \in HistInputs :
            hist = [step |-> NewHistorical(fun, suffix, role),
                    columns |-> cols, table |-> table,
                    status |-> "not called"]

HistCall ==
    /\ HistTransformCall
    /\ UNCHANGED <<dlvars, mlvars, fnvars, stepvars, pass>>

NextHist == HistCall

SpecHist == InitHist /\ [][NextHist]_vars

\* ---------------------------------------------- claims on StepHistorical

\* The non-missing values of column c at the rows of row i's group up to i.
SeenSoFar(c, i) ==
    {hist.table.data[c][j] : j \in {k \in 1..i :
        /\ hist.table.groups[k] = hist.table.groups[i]
        /\ hist.table.data[c][k] # NaN}}

Extreme(fun, S) ==
    CHOOSE x \in S : \A y \in S : IF fun = "max" THEN y <= x ELSE x <= y

\* The derived column of the given name (there is exactly one).
DerivedColumn(name) == CHOOSE d \in hist.table.derived : d.col = name

\* C14: for a trained StepHistorical with fun max (min), transform writes
\* for every resolved column c a column c_suffix whose value at each row is
\* the maximum (minimum) of the non-missing values of c seen so far within
\* the same group ([3,1,4,1,5] gives [3,3,4,4,5]), leaves the source columns
\* unchanged and tags every derived column with the step's role.
C14_RunningExtreme ==
    (hist.status # "not called" /\ hist.step.fun \in {"max", "min"}) =>
        /\ hist.status = "ok"
        /\ \A n \in DOMAIN hist.columns :
              LET c == hist.columns[n]
                  name == c \o "_" \o hist.step.suffix
              IN /\ \E d \in hist.table.derived : d.col = name
                 /\ \A i \in DOMAIN hist.table.groups :
                       SeenSoFar(c, i) # {} =>
                          DerivedColumn(name).values[i] =
                              Extreme(hist.step.fun, SeenSoFar(c, i))
                 /\ [col |-> name, role |-> hist.step.role] \in hist.table.roles
        /\ hist.table.data["b"] = Reverse(hist.table.data["a"])
        /\ (hist.table.data["a"] = HistExample /\ hist.step.fun = "max") =>
              DerivedColumn("a_" \o hist.step.suffix).values = <<3, 3, 4, 4, 5>>

\* ------------------------------------- claims on the per-epoch side effects

\* C15: for every epoch that train runs, including the epoch at which early
\* stopping triggers, the epoch's training loss is recorded to the train
\* stream and its validation loss to the val stream, each exactly once and
\* tagged with that epoch's index.
C15_EveryEpochLogged ==
    /\ Len(train_writer) = Len(history)
    /\ Len(val_writer) = Len(history)
    /\ \A i \in EpochsRun :
          /\ i \in DOMAIN train_writer /\ train_writer[i] = [step |-> i - 1]
          /\ i \in DOMAIN val_writer
          /\ val_writer[i] = [step |-> i - 1, loss |-> history[i].loss]

\* -- SpecPasses: train and test calls of one DLWrapper, batch by batch.

\* Batch losses, in hundredths.
BatchLosses == {60, 72}
LoaderSizes == 0..MaxBatches

InitPasses ==
    /\ InitDL /\ InitML /\ InitFn /\ InitNoStep /\ InitNoHist /\ InitNoPass
    /\ model_torch = NoFile
    /\ ml_model.kind = "lgbm"
    /\ out_features = 2

\* One train call per wrapper, before or after test calls.
PTrainCall ==
    /\ run = 0
    /\ \E e \in 0..2, nt \in LoaderSizes, nv \in LoaderSizes :
            PassTrainCall(e, 1, 0, TRUE, 1, None, nt, nv)

PTrainStart == PassTrainStart

PTrainBatch == \E ok \in BOOLEAN : PassTrainBatch(60, ok)

PTrainEnd == PassTrainEnd

PEvalBatch == \E l \in BatchLosses, ok \in BOOLEAN : PassEvalBatch(l, ok)

PValEnd == PassValEnd

PTrainComplete == (\E r \in BOOLEAN : DLTrainComplete(r)) /\ UNCHANGED notDL

PTestBegin == \E n \in LoaderSizes : PassTestBegin(2, None, n)

PTestEnd == PassTestEnd

NextPasses ==
    \/ PTrainCall \/ PTrainStart \/ PTrainBatch \/ PTrainEnd \/ PEvalBatch
    \/ PValEnd \/ PTrainComplete \/ PTestBegin \/ PTestEnd

SpecPasses == InitPasses /\ [][NextPasses]_vars

\* ---------------------------------------------------- claims on the passes

InPass == pc \in {"train_pass", "val_pass", "test_pass"}

\* The batches 1..n of the given pass, in loader order.
BatchesOf(kind, e, n) == [k \in 1..n |-> BatchOf(kind, e, k)]

\* C16: evaluate updates every metric with every batch of its loader,
\* computes and resets each metric at the end and returns the mean of the
\* per-batch losses; every metric accumulator is empty at the start of each
\* training pass and each evaluation pass, so a validation or test metric
\* value depends only on the batches of that pass.
C16_PassesStartEmpty ==
    \* empty at the start of a pass, and after i batches exactly those i
    /\ InPass => metric_acc = BatchesOf(pass.kind, epoch, pass.i)
    \* reset when the pass is over
    /\ pc \in {"idle", "loop", "stopped", "returned"} => metric_acc = <<>>
    \* the result of a pass: computed on every batch of the loader and on
    \* nothing else, with the mean of the batch losses
    /\ pass.out # None =>
          LET n == IF pass.out.kind = "train" THEN pass.sizes.train
                   ELSE pass.sizes.eval
          IN /\ Len(pass.out.batch_losses) = n
             /\ pass.out.metrics = BatchesOf(pass.out.kind, pass.out.epoch, n)
             /\ pass.out.loss * n = Sum(pass.out.batch_losses)

\* The validation pass of the second epoch returned the mean 0.66 of the
\* losses 0.60 and 0.72 and metrics computed on its own two batches.
C16_Witness ==
    /\ pass.out # None /\ pass.out.kind = "val" /\ pass.out.epoch = 1
    /\ pass.out.batch_losses = <<60, 72>> /\ pass.out.loss = 66
    /\ pass.out.metrics = <<BatchOf("val", 1, 1), BatchOf("val", 1, 2)>>
    /\ pass.sizes.train = 2
    /\ metric_acc = <<>>

\* C17: in every epoch the full training pass completes before the
\* validation pass starts, the early-stopping decision is taken only after
\* the validation pass (never mid-epoch), and the validation pass and test
\* leave the parameters and the optimizer state as they were when the pass
\* started.
C17_PassOrderAndFrame ==
    [][/\ (pc # "val_pass" /\ pc' = "val_pass") =>
            (pc = "train_pass" /\ pass.i = pass.sizes.train)
       /\ (pc # "train_pass" /\ pc' = "train_pass") => pc = "loop"
       /\ (pc = "train_pass" /\ pc' # "train_pass") =>
            pc' \in {"val_pass", "raised"}
       /\ (pc' = "stopped" /\ pc # "stopped") =>
            (pc = "val_pass" /\ pass.i = pass.sizes.eval)
       /\ (InPass /\ <<best_loss, epoch_no_improvement, best_metrics,
                        model_torch, history>>' #
                      <<best_loss, epoch_no_improvement, best_metrics,
                        model_torch, history>>) =>
            (pc = "val_pass" /\ pass.i = pass.sizes.eval)
       /\ (pc \in {"val_pass", "test_pass"} \/ pc' = "test_pass") =>
            (encoder' = encoder /\ optimizer' = optimizer)]_vars

\* Two full epochs of two training and two validation batches ran, the
\* second validation pass triggered the stop, and the parameters are those
\* of the four training batches.
C17_Witness ==
    /\ pc = "stopped" /\ Len(history) = 2
    /\ pass.sizes = [train |-> 2, eval |-> 2]
    /\ encoder = Stepped(Stepped(Stepped(Stepped(Fresh))))
    /\ optimizer = encoder

\* -- SpecTwoSteps: two Step instances of one kind; two StepSklearn steps are
\*    constructed with the same external transform object.

InitTwoSteps ==
    /\ InitDL /\ InitML /\ InitFn /\ InitNoHist /\ InitNoPass
    /\ model_torch = NoFile
    /\ ml_model.kind = "lgbm"
    /\ out_features = 2
    /\ \E cfg \in StepConfigs : step = NewStep(cfg)
    /\ \E cfg \in StepConfigs :
          /\ cfg.kind = step.kind
          /\ step_b = NewStep(cfg)
    /\ sk_obj = Unfitted
    /\ tr = [op |-> "none"]
    /\ completed_cols = NoFitYet
    /\ step_calls = 0

NotSteps == <<dlvars, mlvars, fnvars, hist, pass>>

FitBCall ==
    /\ \E t \in Tables, k \in 0..2 : FitB(t, k)
    /\ UNCHANGED NotSteps

TransformBCall ==
    /\ \E t \in Tables, n \in BOOLEAN : TransformB(t, n)
    /\ UNCHANGED NotSteps

NextTwoSteps == FitCall \/ TransformCall \/ FitBCall \/ TransformBCall

SpecTwoSteps == InitTwoSteps /\ [][NextTwoSteps]_vars

\* ------------------------------------------- claims on two Step instances

\* C18: fitted sub-state is owned by one Step instance: for any two Step
\* instances (including two StepSklearn steps constructed with the same
\* external transform object, columnwise or joint) and any interleaving of
\* their fit and transform calls, fitting one step never changes the output
\* that the other, already fitted, step's transform produces for a table.
C18_FitLeavesOtherStepAlone ==
    [][\A t \in Tables, n \in BOOLEAN :
        /\ (tr'.op = "b.fit" /\ step.trained) =>
              TransformOutput(step', sk_obj', t, n) =
                  TransformOutput(step, sk_obj, t, n)
        /\ (tr'.op = "fit" /\ step_b.trained) =>
              TransformOutput(step_b', sk_obj', t, n) =
                  TransformOutput(step_b, sk_obj, t, n)]_vars

\* ------------------------------------------------ claims on the trained flag

FitOps == {"fit", "fit_transform"}

\* C19: the trained flag is false from construction, becomes true only as
\* the last effect of a fit call that completes (a fit that raises part-way
\* leaves the flag and the resolved columns as they were before the call),
\* and once true never becomes false again under any sequence of fit,
\* transform and fit_transform calls.
C19_TrainedFlag ==
    /\ [](step_calls = 0 => ~step.trained)
    /\ [][/\ step.trained => step'.trained
          /\ (~step.trained /\ step'.trained) =>
               /\ tr'.op \in FitOps
               /\ tr'.op = "fit" => tr'.status = "ok"
               /\ completed_cols' = step'.columns
          /\ (tr'.op = "fit" /\ tr'.status = "raised") =>
               /\ step'.trained = step.trained
               /\ step'.columns = step.columns]_vars

\* -- SpecML: train, load_weights and test calls of one MLWrapper.

InitMLRuns ==
    /\ InitDL /\ InitML /\ InitFn /\ InitNoStep /\ InitNoHist /\ InitNoPass
    /\ model_torch = NoFile
    /\ out_features = 2

MLTrainCall ==
    /\ \E s \in Seeds, y \in LabelVectors, b \in RunScores, sw \in BOOLEAN :
            MLTrain(s, y, sw, b)
    /\ DLUntouched /\ UNCHANGED others

MLLoadCall == MLLoad /\ DLUntouched /\ UNCHANGED others

MLTestCall ==
    /\ \E s \in Seeds, y \in LabelVectors : MLTest(s, y)
    /\ DLUntouched /\ UNCHANGED others

NextML == MLTrainCall \/ MLLoadCall \/ MLTestCall

SpecML == InitMLRuns /\ [][NextML]_vars

\* ------------------------------------------- claims on MLWrapper's paths

\* The step is a call of the given operation that returned.
MLReturns(op) ==
    /\ call'.op = op /\ call'.state = "returned"
    /\ calls' = calls + 1 \/ op = "MLWrapper.load_weights"

C20_WitnessJoblib ==
    /\ call.op = "MLWrapper.test" /\ ml_model.kind = "sklearn"
    /\ ml_model_file # NoFile /\ ml_model_file.suffix = "joblib"
    /\ ml_val_json # NoFile /\ ml_val_json.loss = 0
    /\ ml_predict = "predict_proba"

\* ------------------------------------------ claims on how train ends

\* C21: for every epochs >= 0, every patience >= 0 and every sequence of
\* validation losses, train runs at most `epochs` epochs and reaches its
\* completion steps (write best metrics, append the seed record, reload the
\* checkpoint) with a best-metrics snapshot defined; ending by exhausted
\* patience or by exhausted epochs is a successful termination, never an
\* error.
C21_TrainCompletes ==
    /\ Len(history) <= epochs
    /\ pc # "raised"
    /\ pc = "returned" =>
          /\ best_metrics # Unbound
          /\ best_metrics_json = best_metrics
          /\ val_shared[seed] # NoRecord

\* The file was written by save_weights during the current train call.
WrittenThisCall(file) ==
    /\ file # NoFile
    /\ "run" \in DOMAIN file.model
    /\ file.model.run = run

\* C22: the checkpoint that train reloads into the live model at completion
\* was written during that same train call; train never loads a model.torch
\* left in the log directory by an earlier call, for save_weights=True and
\* for save_weights=False.
C22_ReloadsOwnCheckpoint ==
    [][(pc \in {"loop", "stopped"} /\ pc' = "returned") =>
          /\ model_torch # NoFile => WrittenThisCall(model_torch)
          /\ encoder' # encoder =>
                (WrittenThisCall(model_torch) /\ encoder' = model_torch.model)]_vars

\* ------------------------------------------ claims on the best state

\* The loop of train stands between two epochs, or has just left its last
\* one, with at least one epoch run.
AtEpochBoundary == pc \in {"loop", "stopped"} /\ history # <<>>

====
